---- MODULE Spec2Model ----
(***************************************************************************)
(* Model of the template store and template engine of Main.py              *)
(* (class GuestEmailGenerator).                                            *)
(*                                                                         *)
(* A text (Python str) is a sequence of one-character strings.  The store  *)
(* is the dict self.templates; the storage location is the directory       *)
(* self.templates_path, modelled as a function from file names to file     *)
(* contents, a content being the text json.dump writes.                    *)
(*                                                                         *)
(* Spec is the store: a generator constructed on an existing, empty        *)
(* directory, then any sequence of add_template, update_template and       *)
(* delete_template calls, each durable step succeeding or raising OSError, *)
(* and of restarts of the program on the same directory.                   *)
(* SpecEngine is the engine: get_required_fields and generate_email on a   *)
(* store that holds one template added with the patterns of                *)
(* EnginePatterns.                                                         *)
(*                                                                         *)
(* The code raises ValueError where the design names NotFoundError,        *)
(* DuplicateError and MissingFieldError; the outcome of a call tells them  *)
(* apart by the message ("ValueError: not found", "ValueError: exists",    *)
(* "ValueError: missing").  "ValueError" and "KeyError" alone are what     *)
(* string.Template.substitute raises; "OSError" is a failed durable step.  *)
(***************************************************************************)
EXTENDS Integers, Sequences, FiniteSets, TLC

VARIABLES
  templates,   \* self.templates: template name -> [subject, body]
  files,       \* directory templates_path: file name -> JSON content
  last,        \* the last call made on the generator and its outcome
  effects,     \* what the last call did: files written, files removed, and
               \* the guest details mapping as the call left it
  clean,       \* history: no durable step has failed so far
  deleted      \* history: names this process deleted and has not added again

vars == <<templates, files, last, effects, clean, deleted>>

----------------------------------------------------------------------------
(* Characters *)

Digits == {"0", "1", "2", "3", "4", "5", "6", "7", "8", "9"}

Lower == {"a", "b", "c", "d", "e", "f", "g", "h", "i", "j", "k", "l", "m",
          "n", "o", "p", "q", "r", "s", "t", "u", "v", "w", "x", "y", "z"}

Upper == {"A", "B", "C", "D", "E", "F", "G", "H", "I", "J", "K", "L", "M",
          "N", "O", "P", "Q", "R", "S", "T", "U", "V", "W", "X", "Y", "Z"}

\* the identifier characters in code point order, as Python compares str
CodePoints ==
  << "0", "1", "2", "3", "4", "5", "6", "7", "8", "9",
     "A", "B", "C", "D", "E", "F", "G", "H", "I", "J", "K", "L", "M",
     "N", "O", "P", "Q", "R", "S", "T", "U", "V", "W", "X", "Y", "Z",
     "_",
     "a", "b", "c", "d", "e", "f", "g", "h", "i", "j", "k", "l", "m",
     "n", "o", "p", "q", "r", "s", "t", "u", "v", "w", "x", "y", "z" >>

ord(c) == CHOOSE i \in 1..Len(CodePoints) : CodePoints[i] = c

\* str < str on identifiers: lexicographic by code point, a proper prefix first
RECURSIVE StrLess(_, _)
StrLess(s, t) ==
  IF t = <<>> THEN FALSE
  ELSE IF s = <<>> THEN TRUE
  ELSE IF s[1] = t[1] THEN StrLess(Tail(s), Tail(t))
  ELSE ord(s[1]) < ord(t[1])

\* sorted(S) for a set S of identifiers
RECURSIVE sorted(_)
sorted(S) ==
  IF S = {} THEN <<>>
  ELSE LET m == CHOOSE x \in S : \A y \in S \ {x} : StrLess(x, y)
       IN  <<m>> \o sorted(S \ {m})

Range(s) == {s[i] : i \in 1..Len(s)}

\* None, a value that is no text
None == <<"None">>

----------------------------------------------------------------------------
(* The default templates of _create_default_templates *)

BookingConfirmationName ==
  <<
    "b", "o", "o", "k", "i", "n", "g", "_", "c", "o", "n", "f", "i", "r", "m", "a",
    "t", "i", "o", "n"
  >>

BookingConfirmationSubject ==
  <<
    "B", "o", "o", "k", "i", "n", "g", " ", "C", "o", "n", "f", "i", "r", "m", "a",
    "t", "i", "o", "n", " ", "-", " ", "$", "h", "o", "t", "e", "l", "_", "n", "a",
    "m", "e"
  >>

BookingConfirmationBody ==
  <<
    "D", "e", "a", "r", " ", "$", "g", "u", "e", "s", "t", "_", "n", "a", "m", "e",
    ",", "\n", "\n", "T", "h", "a", "n", "k", " ", "y", "o", "u", " ", "f", "o", "r",
    " ", "c", "h", "o", "o", "s", "i", "n", "g", " ", "$", "h", "o", "t", "e", "l",
    "_", "n", "a", "m", "e", " ", "f", "o", "r", " ", "y", "o", "u", "r", " ", "u",
    "p", "c", "o", "m", "i", "n", "g", " ", "s", "t", "a", "y", " ", "i", "n", " ",
    "$", "l", "o", "c", "a", "t", "i", "o", "n", ".", " ", "W", "e", " ", "a", "r",
    "e", " ", "p", "l", "e", "a", "s", "e", "d", " ", "t", "o", " ", "c", "o", "n",
    "f", "i", "r", "m", " ", "y", "o", "u", "r", " ", "b", "o", "o", "k", "i", "n",
    "g", " ", "d", "e", "t", "a", "i", "l", "s", ":", "\n", "\n", "R", "e", "s", "e",
    "r", "v", "a", "t", "i", "o", "n", " ", "D", "e", "t", "a", "i", "l", "s", ":",
    "\n", "-", " ", "C", "h", "e", "c", "k", "-", "i", "n", " ", "D", "a", "t", "e",
    ":", " ", "$", "c", "h", "e", "c", "k", "_", "i", "n", "_", "d", "a", "t", "e",
    "\n", "-", " ", "C", "h", "e", "c", "k", "-", "o", "u", "t", " ", "D", "a", "t",
    "e", ":", " ", "$", "c", "h", "e", "c", "k", "_", "o", "u", "t", "_", "d", "a",
    "t", "e", "\n", "-", " ", "R", "o", "o", "m", " ", "T", "y", "p", "e", ":", " ",
    "$", "r", "o", "o", "m", "_", "t", "y", "p", "e", "\n", "-", " ", "N", "u", "m",
    "b", "e", "r", " ", "o", "f", " ", "G", "u", "e", "s", "t", "s", ":", " ", "$",
    "n", "u", "m", "_", "g", "u", "e", "s", "t", "s", "\n", "-", " ", "R", "e", "s",
    "e", "r", "v", "a", "t", "i", "o", "n", " ", "N", "u", "m", "b", "e", "r", ":",
    " ", "$", "r", "e", "s", "e", "r", "v", "a", "t", "i", "o", "n", "_", "n", "u",
    "m", "b", "e", "r", "\n", "\n", "W", "e", " ", "l", "o", "o", "k", " ", "f", "o",
    "r", "w", "a", "r", "d", " ", "t", "o", " ", "w", "e", "l", "c", "o", "m", "i",
    "n", "g", " ", "y", "o", "u", " ", "o", "n", " ", "$", "c", "h", "e", "c", "k",
    "_", "i", "n", "_", "d", "a", "t", "e", ".", " ", "S", "h", "o", "u", "l", "d",
    " ", "y", "o", "u", " ", "h", "a", "v", "e", " ", "a", "n", "y", " ", "q", "u",
    "e", "s", "t", "i", "o", "n", "s", " ", "o", "r", " ", "s", "p", "e", "c", "i",
    "a", "l", " ", "r", "e", "q", "u", "e", "s", "t", "s", " ", "b", "e", "f", "o",
    "r", "e", " ", "y", "o", "u", "r", " ", "a", "r", "r", "i", "v", "a", "l", ",",
    " ", "p", "l", "e", "a", "s", "e", " ", "d", "o", "n", "'", "t", " ", "h", "e",
    "s", "i", "t", "a", "t", "e", " ", "t", "o", " ", "c", "o", "n", "t", "a", "c",
    "t", " ", "u", "s", ".", "\n", "\n", "B", "e", "s", "t", " ", "r", "e", "g", "a",
    "r", "d", "s", ",", "\n", "$", "s", "t", "a", "f", "f", "_", "n", "a", "m", "e",
    "\n", "$", "h", "o", "t", "e", "l", "_", "n", "a", "m", "e", "\n", "$", "h", "o",
    "t", "e", "l", "_", "c", "o", "n", "t", "a", "c", "t", "\n"
  >>

InquiryResponseName ==
  <<
    "i", "n", "q", "u", "i", "r", "y", "_", "r", "e", "s", "p", "o", "n", "s", "e"
  >>

InquiryResponseSubject ==
  <<
    "R", "e", "s", "p", "o", "n", "s", "e", " ", "t", "o", " ", "Y", "o", "u", "r",
    " ", "I", "n", "q", "u", "i", "r", "y", " ", "-", " ", "$", "h", "o", "t", "e",
    "l", "_", "n", "a", "m", "e"
  >>

InquiryResponseBody ==
  <<
    "D", "e", "a", "r", " ", "$", "g", "u", "e", "s", "t", "_", "n", "a", "m", "e",
    ",", "\n", "\n", "T", "h", "a", "n", "k", " ", "y", "o", "u", " ", "f", "o", "r",
    " ", "y", "o", "u", "r", " ", "i", "n", "t", "e", "r", "e", "s", "t", " ", "i",
    "n", " ", "$", "h", "o", "t", "e", "l", "_", "n", "a", "m", "e", ".", " ", "W",
    "e", " ", "a", "p", "p", "r", "e", "c", "i", "a", "t", "e", " ", "y", "o", "u",
    " ", "r", "e", "a", "c", "h", "i", "n", "g", " ", "o", "u", "t", " ", "t", "o",
    " ", "u", "s", " ", "r", "e", "g", "a", "r", "d", "i", "n", "g", " ", "$", "i",
    "n", "q", "u", "i", "r", "y", "_", "s", "u", "b", "j", "e", "c", "t", ".", "\n",
    "\n", "$", "c", "u", "s", "t", "o", "m", "_", "r", "e", "s", "p", "o", "n", "s",
    "e", "\n", "\n", "I", "f", " ", "y", "o", "u", " ", "h", "a", "v", "e", " ", "a",
    "n", "y", " ", "f", "u", "r", "t", "h", "e", "r", " ", "q", "u", "e", "s", "t",
    "i", "o", "n", "s", ",", " ", "p", "l", "e", "a", "s", "e", " ", "f", "e", "e",
    "l", " ", "f", "r", "e", "e", " ", "t", "o", " ", "c", "o", "n", "t", "a", "c",
    "t", " ", "u", "s", " ", "a", "t", " ", "$", "h", "o", "t", "e", "l", "_", "c",
    "o", "n", "t", "a", "c", "t", ".", "\n", "\n", "B", "e", "s", "t", " ", "r", "e",
    "g", "a", "r", "d", "s", ",", "\n", "$", "s", "t", "a", "f", "f", "_", "n", "a",
    "m", "e", "\n", "$", "h", "o", "t", "e", "l", "_", "n", "a", "m", "e", "\n"
  >>

SpecialRequestName ==
  <<
    "s", "p", "e", "c", "i", "a", "l", "_", "r", "e", "q", "u", "e", "s", "t"
  >>

SpecialRequestSubject ==
  <<
    "Y", "o", "u", "r", " ", "S", "p", "e", "c", "i", "a", "l", " ", "R", "e", "q",
    "u", "e", "s", "t", " ", "-", " ", "$", "h", "o", "t", "e", "l", "_", "n", "a",
    "m", "e"
  >>

SpecialRequestBody ==
  <<
    "D", "e", "a", "r", " ", "$", "g", "u", "e", "s", "t", "_", "n", "a", "m", "e",
    ",", "\n", "\n", "T", "h", "a", "n", "k", " ", "y", "o", "u", " ", "f", "o", "r",
    " ", "y", "o", "u", "r", " ", "s", "p", "e", "c", "i", "a", "l", " ", "r", "e",
    "q", "u", "e", "s", "t", " ", "r", "e", "g", "a", "r", "d", "i", "n", "g", " ",
    "y", "o", "u", "r", " ", "u", "p", "c", "o", "m", "i", "n", "g", " ", "s", "t",
    "a", "y", " ", "a", "t", " ", "$", "h", "o", "t", "e", "l", "_", "n", "a", "m",
    "e", ".", "\n", "\n", "W", "e", " ", "h", "a", "v", "e", " ", "n", "o", "t", "e",
    "d", " ", "y", "o", "u", "r", " ", "r", "e", "q", "u", "e", "s", "t", " ", "f",
    "o", "r", " ", "$", "s", "p", "e", "c", "i", "a", "l", "_", "r", "e", "q", "u",
    "e", "s", "t", " ", "a", "n", "d", " ", "w", "i", "l", "l", " ", "d", "o", " ",
    "o", "u", "r", " ", "b", "e", "s", "t", " ", "t", "o", " ", "a", "c", "c", "o",
    "m", "m", "o", "d", "a", "t", "e", " ", "i", "t", ".", " ", "$", "c", "u", "s",
    "t", "o", "m", "_", "r", "e", "s", "p", "o", "n", "s", "e", "\n", "\n", "I", "f",
    " ", "y", "o", "u", " ", "h", "a", "v", "e", " ", "a", "n", "y", " ", "a", "d",
    "d", "i", "t", "i", "o", "n", "a", "l", " ", "r", "e", "q", "u", "e", "s", "t",
    "s", " ", "o", "r", " ", "q", "u", "e", "s", "t", "i", "o", "n", "s", ",", " ",
    "p", "l", "e", "a", "s", "e", " ", "d", "o", "n", "'", "t", " ", "h", "e", "s",
    "i", "t", "a", "t", "e", " ", "t", "o", " ", "l", "e", "t", " ", "u", "s", " ",
    "k", "n", "o", "w", ".", "\n", "\n", "B", "e", "s", "t", " ", "r", "e", "g", "a",
    "r", "d", "s", ",", "\n", "$", "s", "t", "a", "f", "f", "_", "n", "a", "m", "e",
    "\n", "$", "h", "o", "t", "e", "l", "_", "n", "a", "m", "e", "\n", "$", "h", "o",
    "t", "e", "l", "_", "c", "o", "n", "t", "a", "c", "t", "\n"
  >>

CheckoutReminderName ==
  <<
    "c", "h", "e", "c", "k", "o", "u", "t", "_", "r", "e", "m", "i", "n", "d", "e",
    "r"
  >>

CheckoutReminderSubject ==
  <<
    "C", "h", "e", "c", "k", "o", "u", "t", " ", "R", "e", "m", "i", "n", "d", "e",
    "r", " ", "-", " ", "$", "h", "o", "t", "e", "l", "_", "n", "a", "m", "e"
  >>

CheckoutReminderBody ==
  <<
    "D", "e", "a", "r", " ", "$", "g", "u", "e", "s", "t", "_", "n", "a", "m", "e",
    ",", "\n", "\n", "W", "e", " ", "h", "o", "p", "e", " ", "y", "o", "u", "'", "v",
    "e", " ", "b", "e", "e", "n", " ", "e", "n", "j", "o", "y", "i", "n", "g", " ",
    "y", "o", "u", "r", " ", "s", "t", "a", "y", " ", "a", "t", " ", "$", "h", "o",
    "t", "e", "l", "_", "n", "a", "m", "e", ".", "\n", "\n", "T", "h", "i", "s", " ",
    "i", "s", " ", "a", " ", "f", "r", "i", "e", "n", "d", "l", "y", " ", "r", "e",
    "m", "i", "n", "d", "e", "r", " ", "t", "h", "a", "t", " ", "y", "o", "u", "r",
    " ", "c", "h", "e", "c", "k", "o", "u", "t", " ", "i", "s", " ", "s", "c", "h",
    "e", "d", "u", "l", "e", "d", " ", "f", "o", "r", " ", "t", "o", "m", "o", "r",
    "r", "o", "w", ",", " ", "$", "c", "h", "e", "c", "k", "_", "o", "u", "t", "_",
    "d", "a", "t", "e", ",", " ", "a", "t", " ", "$", "c", "h", "e", "c", "k", "o",
    "u", "t", "_", "t", "i", "m", "e", ".", " ", "\n", "\n", "$", "l", "a", "t", "e",
    "_", "c", "h", "e", "c", "k", "o", "u", "t", "_", "p", "o", "l", "i", "c", "y",
    "\n", "\n", "P", "l", "e", "a", "s", "e", " ", "e", "n", "s", "u", "r", "e", " ",
    "a", "l", "l", " ", "r", "o", "o", "m", " ", "k", "e", "y", "s", " ", "a", "r",
    "e", " ", "r", "e", "t", "u", "r", "n", "e", "d", " ", "t", "o", " ", "t", "h",
    "e", " ", "f", "r", "o", "n", "t", " ", "d", "e", "s", "k", " ", "u", "p", "o",
    "n", " ", "d", "e", "p", "a", "r", "t", "u", "r", "e", ".", " ", "I", "f", " ",
    "y", "o", "u", " ", "h", "a", "v", "e", " ", "a", "n", "y", " ", "q", "u", "e",
    "s", "t", "i", "o", "n", "s", " ", "o", "r", " ", "n", "e", "e", "d", " ", "a",
    "s", "s", "i", "s", "t", "a", "n", "c", "e", " ", "w", "i", "t", "h", " ", "y",
    "o", "u", "r", " ", "l", "u", "g", "g", "a", "g", "e", ",", " ", "o", "u", "r",
    " ", "s", "t", "a", "f", "f", " ", "w", "i", "l", "l", " ", "b", "e", " ", "h",
    "a", "p", "p", "y", " ", "t", "o", " ", "h", "e", "l", "p", ".", "\n", "\n", "I",
    "t", " ", "h", "a", "s", " ", "b", "e", "e", "n", " ", "o", "u", "r", " ", "p",
    "l", "e", "a", "s", "u", "r", "e", " ", "t", "o", " ", "h", "o", "s", "t", " ",
    "y", "o", "u", ",", " ", "a", "n", "d", " ", "w", "e", " ", "w", "i", "s", "h",
    " ", "y", "o", "u", " ", "s", "a", "f", "e", " ", "t", "r", "a", "v", "e", "l",
    "s", ".", "\n", "\n", "B", "e", "s", "t", " ", "r", "e", "g", "a", "r", "d", "s",
    ",", "\n", "$", "s", "t", "a", "f", "f", "_", "n", "a", "m", "e", "\n", "$", "h",
    "o", "t", "e", "l", "_", "n", "a", "m", "e", "\n", "$", "h", "o", "t", "e", "l",
    "_", "c", "o", "n", "t", "a", "c", "t", "\n"
  >>

FeedbackRequestName ==
  <<
    "f", "e", "e", "d", "b", "a", "c", "k", "_", "r", "e", "q", "u", "e", "s", "t"
  >>

FeedbackRequestSubject ==
  <<
    "H", "o", "w", " ", "w", "a", "s", " ", "y", "o", "u", "r", " ", "s", "t", "a",
    "y", "?", " ", "-", " ", "$", "h", "o", "t", "e", "l", "_", "n", "a", "m", "e"
  >>

FeedbackRequestBody ==
  <<
    "D", "e", "a", "r", " ", "$", "g", "u", "e", "s", "t", "_", "n", "a", "m", "e",
    ",", "\n", "\n", "W", "e", " ", "h", "o", "p", "e", " ", "y", "o", "u", " ", "e",
    "n", "j", "o", "y", "e", "d", " ", "y", "o", "u", "r", " ", "r", "e", "c", "e",
    "n", "t", " ", "s", "t", "a", "y", " ", "a", "t", " ", "$", "h", "o", "t", "e",
    "l", "_", "n", "a", "m", "e", " ", "f", "r", "o", "m", " ", "$", "c", "h", "e",
    "c", "k", "_", "i", "n", "_", "d", "a", "t", "e", " ", "t", "o", " ", "$", "c",
    "h", "e", "c", "k", "_", "o", "u", "t", "_", "d", "a", "t", "e", ".", "\n", "\n",
    "Y", "o", "u", "r", " ", "f", "e", "e", "d", "b", "a", "c", "k", " ", "i", "s",
    " ", "e", "x", "t", "r", "e", "m", "e", "l", "y", " ", "v", "a", "l", "u", "a",
    "b", "l", "e", " ", "t", "o", " ", "u", "s", ",", " ", "a", "n", "d", " ", "w",
    "e", " ", "w", "o", "u", "l", "d", " ", "a", "p", "p", "r", "e", "c", "i", "a",
    "t", "e", " ", "i", "f", " ", "y", "o", "u", " ", "c", "o", "u", "l", "d", " ",
    "t", "a", "k", "e", " ", "a", " ", "f", "e", "w", " ", "m", "i", "n", "u", "t",
    "e", "s", " ", "t", "o", " ", "s", "h", "a", "r", "e", " ", "y", "o", "u", "r",
    " ", "e", "x", "p", "e", "r", "i", "e", "n", "c", "e", ".", " ", "Y", "o", "u",
    " ", "c", "a", "n", " ", "s", "u", "b", "m", "i", "t", " ", "y", "o", "u", "r",
    " ", "r", "e", "v", "i", "e", "w", " ", "b", "y", " ", "$", "f", "e", "e", "d",
    "b", "a", "c", "k", "_", "m", "e", "t", "h", "o", "d", ".", "\n", "\n", "T", "h",
    "a", "n", "k", " ", "y", "o", "u", " ", "f", "o", "r", " ", "c", "h", "o", "o",
    "s", "i", "n", "g", " ", "$", "h", "o", "t", "e", "l", "_", "n", "a", "m", "e",
    ".", " ", "W", "e", " ", "l", "o", "o", "k", " ", "f", "o", "r", "w", "a", "r",
    "d", " ", "t", "o", " ", "w", "e", "l", "c", "o", "m", "i", "n", "g", " ", "y",
    "o", "u", " ", "b", "a", "c", "k", " ", "i", "n", " ", "t", "h", "e", " ", "f",
    "u", "t", "u", "r", "e", ".", "\n", "\n", "B", "e", "s", "t", " ", "r", "e", "g",
    "a", "r", "d", "s", ",", "\n", "$", "s", "t", "a", "f", "f", "_", "n", "a", "m",
    "e", "\n", "$", "h", "o", "t", "e", "l", "_", "n", "a", "m", "e", "\n", "$", "h",
    "o", "t", "e", "l", "_", "c", "o", "n", "t", "a", "c", "t", "\n"
  >>
----------------------------------------------------------------------------
\* Placeholder scanning: re.findall(pattern, text) with
\* pattern = r'\$([a-zA-Z_][a-zA-Z0-9_]*)'

\* [a-zA-Z_]
IsIdStart(c) == c \in Lower \cup Upper \cup {"_"}

\* [a-zA-Z0-9_]
IsIdChar(c) == IsIdStart(c) \/ c \in Digits

\* the last index of the longest run of identifier characters that starts
\* at index i (the greedy match of the identifier); text[i] starts the run
RECURSIVE IdEnd(_, _)
IdEnd(text, i) ==
  IF i < Len(text) /\ IsIdChar(text[i + 1]) THEN IdEnd(text, i + 1) ELSE i

\* the first index from i on whose character is in chars, Len(text) + 1 if
\* there is none: where the scan for the next match or escape stops
NextIndex(text, i, chars) ==
  LET found == {k \in i..Len(text) : text[k] \in chars}
  IN  IF found = {} THEN Len(text) + 1
      ELSE CHOOSE k \in found : \A m \in found : k <= m

\* the captured groups of the non-overlapping matches from index i on
RECURSIVE FindAllFrom(_, _)
FindAllFrom(text, i) ==
  LET d == NextIndex(text, i, {"$"})
  IN  IF d > Len(text) THEN <<>>
      ELSE IF d < Len(text) /\ IsIdStart(text[d + 1])
           THEN LET e == IdEnd(text, d + 1)
                IN  <<SubSeq(text, d + 1, e)>> \o FindAllFrom(text, e + 1)
           ELSE FindAllFrom(text, d + 1)

findall(text) == FindAllFrom(text, 1)

\* a plausible slip: only the subject is scanned
required_fields_subject_only(template) ==
  sorted(Range(findall(template.subject)))

\* get_required_fields on a template record (the body after the lookup)
required_fields_of(template) ==
  LET subject_fields == findall(template.subject)
      body_fields    == findall(template.body)
      all_fields     == Range(subject_fields \o body_fields)
  IN  sorted(all_fields)

----------------------------------------------------------------------------
\* string.Template(text).substitute(mapping), whose pattern is
\*   \$(?: (?P<escaped>\$) | (?P<named>id) | {(?P<braced>id)} | (?P<invalid>) )
\* The result is [error, out]: error is "none", "KeyError" (a named or
\* braced identifier that is no key of mapping) or "ValueError" (an
\* invalid placeholder); the first failing match, left to right, decides.

RECURSIVE SubstituteFrom(_, _, _, _)
SubstituteFrom(text, mapping, i, out) ==
  LET d    == NextIndex(text, i, {"$"})
      copy == out \o SubSeq(text, i, d - 1)
  IN  IF d > Len(text) THEN [error |-> "none", out |-> copy]
      ELSE IF d < Len(text) /\ text[d + 1] = "$"
           THEN \* escaped
                SubstituteFrom(text, mapping, d + 2, Append(copy, "$"))
      ELSE IF d < Len(text) /\ IsIdStart(text[d + 1])
           THEN \* named
                LET e  == IdEnd(text, d + 1)
                    id == SubSeq(text, d + 1, e)
                IN  IF id \in DOMAIN mapping
                    THEN SubstituteFrom(text, mapping, e + 1,
                                        copy \o mapping[id])
                    ELSE [error |-> "KeyError", out |-> <<>>]
      ELSE IF d + 1 < Len(text) /\ text[d + 1] = "{" /\ IsIdStart(text[d + 2])
              /\ IdEnd(text, d + 2) < Len(text)
              /\ text[IdEnd(text, d + 2) + 1] = "}"
           THEN \* braced
                LET e  == IdEnd(text, d + 2)
                    id == SubSeq(text, d + 2, e)
                IN  IF id \in DOMAIN mapping
                    THEN SubstituteFrom(text, mapping, e + 2,
                                        copy \o mapping[id])
                    ELSE [error |-> "KeyError", out |-> <<>>]
      ELSE \* invalid
           [error |-> "ValueError", out |-> <<>>]

\* a plausible slip: the substituted text is substituted once more
substitute_twice(text, mapping) ==
  LET first == SubstituteFrom(text, mapping, 1, <<>>)
  IN  IF first.error # "none" THEN first
      ELSE SubstituteFrom(first.out, mapping, 1, <<>>)

substitute(text, mapping) == SubstituteFrom(text, mapping, 1, <<>>)

----------------------------------------------------------------------------
\* The durable record: json.dump(template, file, indent=4) and json.load(file)

\* the text json.dump writes before the subject, between subject and body,
\* and after the body
JsonHead == << "{", "\n", " ", " ", " ", " ",
               "\"", "s", "u", "b", "j", "e", "c", "t", "\"", ":", " ", "\"" >>

JsonMid == << "\"", ",", "\n", " ", " ", " ", " ",
              "\"", "b", "o", "d", "y", "\"", ":", " ", "\"" >>

JsonFoot == << "\"", "\n", "}" >>

\* the escaped form of one character inside a JSON string
JsonEscapeChar(c) ==
  IF c = "\"" THEN <<"\\", "\"">>
  ELSE IF c = "\\" THEN <<"\\", "\\">>
  ELSE IF c = "\n" THEN <<"\\", "n">>
  ELSE <<c>>

\* the characters json.dump escapes
JsonEscaped == {"\"", "\\", "\n"}

RECURSIVE JsonEscapeFrom(_, _)
JsonEscapeFrom(text, i) ==
  LET e == NextIndex(text, i, JsonEscaped)
  IN  IF e > Len(text) THEN SubSeq(text, i, Len(text))
      ELSE SubSeq(text, i, e - 1) \o JsonEscapeChar(text[e])
             \o JsonEscapeFrom(text, e + 1)

JsonEscape(text) == JsonEscapeFrom(text, 1)

json_dump(template) ==
  JsonHead \o JsonEscape(template.subject) \o JsonMid
           \o JsonEscape(template.body) \o JsonFoot

\* what json.load does with the character after a backslash
JsonUnescapeChar(c) == IF c = "n" THEN "\n" ELSE c

\* scans a JSON string from index i (just after its opening quote) to its
\* closing quote: [ok, text, next], next being the index after the quote
RECURSIVE JsonScanString(_, _, _)
JsonScanString(content, i, out) ==
  LET e    == NextIndex(content, i, {"\"", "\\"})
      copy == out \o SubSeq(content, i, e - 1)
  IN  IF e > Len(content) THEN [ok |-> FALSE, text |-> <<>>, next |-> e]
      ELSE IF content[e] = "\"" THEN [ok |-> TRUE, text |-> copy, next |-> e + 1]
      ELSE IF e < Len(content)
           THEN JsonScanString(content, e + 2,
                               Append(copy, JsonUnescapeChar(content[e + 1])))
           ELSE [ok |-> FALSE, text |-> <<>>, next |-> e]

HasPrefixAt(content, i, prefix) ==
  /\ i + Len(prefix) - 1 <= Len(content)
  /\ SubSeq(content, i, i + Len(prefix) - 1) = prefix

\* json.load(file): [ok, template]; ok is FALSE where json.load raises
json_load(content) ==
  LET bad == [ok |-> FALSE, template |-> [subject |-> <<>>, body |-> <<>>]]
  IN  IF ~HasPrefixAt(content, 1, JsonHead) THEN bad
      ELSE LET s == JsonScanString(content, Len(JsonHead) + 1, <<>>)
           IN  IF ~s.ok \/ ~HasPrefixAt(content, s.next - 1, JsonMid) THEN bad
               ELSE LET b == JsonScanString(content,
                                            s.next - 1 + Len(JsonMid), <<>>)
                    IN  IF ~b.ok \/ b.next - 1 + Len(JsonFoot) - 1 # Len(content)
                           \/ ~HasPrefixAt(content, b.next - 1, JsonFoot)
                        THEN bad
                        ELSE [ok |-> TRUE,
                              template |-> [subject |-> s.text,
                                            body |-> b.text]]

\* a file that open(..., 'w') has truncated and json.dump did not fill
TruncatedFile == <<>>

----------------------------------------------------------------------------
\* File names

JsonSuffix == <<".", "j", "s", "o", "n">>

\* os.path.join(self.templates_path, f"{template_name}.json"), as the name
\* of the file inside the directory
template_file(template_name) == template_name \o JsonSuffix

\* filename.endswith('.json')
endswith_json(filename) ==
  /\ Len(filename) >= Len(JsonSuffix)
  /\ SubSeq(filename, Len(filename) - Len(JsonSuffix) + 1, Len(filename))
       = JsonSuffix

\* filename.split('.')[0]: the text before the first dot
RECURSIVE split_dot_first(_)
split_dot_first(filename) ==
  IF filename = <<>> \/ filename[1] = "." THEN <<>>
  ELSE <<filename[1]>> \o split_dot_first(Tail(filename))

----------------------------------------------------------------------------
\* _create_default_templates and load_templates

default_templates ==
  (BookingConfirmationName :>
     [subject |-> BookingConfirmationSubject, body |-> BookingConfirmationBody])
  @@ (InquiryResponseName :>
     [subject |-> InquiryResponseSubject, body |-> InquiryResponseBody])
  @@ (SpecialRequestName :>
     [subject |-> SpecialRequestSubject, body |-> SpecialRequestBody])
  @@ (CheckoutReminderName :>
     [subject |-> CheckoutReminderSubject, body |-> CheckoutReminderBody])
  @@ (FeedbackRequestName :>
     [subject |-> FeedbackRequestSubject, body |-> FeedbackRequestBody])

\* the directory after _create_default_templates has written into it
create_default_templates(dir) ==
  [fn \in {template_file(n) : n \in DOMAIN default_templates} |->
     json_dump(default_templates[CHOOSE n \in DOMAIN default_templates :
                                   template_file(n) = fn])] @@ dir

\* the files of the directory that load_templates reads
json_files(dir) == {fn \in DOMAIN dir : endswith_json(fn)}

\* load_templates raises when a file does not parse
loadable(dir) == \A fn \in json_files(dir) : json_load(dir[fn]).ok

\* The dicts load_templates can build from the directory.  os.listdir
\* returns the files in arbitrary order and a later file replaces an
\* earlier one stored under the same template_type.
load_outcomes(dir) ==
  LET types      == {split_dot_first(fn) : fn \in json_files(dir)}
      sources(t) == {fn \in json_files(dir) : split_dot_first(fn) = t}
      shared     == {t \in types : Cardinality(sources(t)) > 1}
      orders     == {last_read \in [shared -> json_files(dir)] :
                       \A t \in shared : last_read[t] \in sources(t)}
  IN  {[t \in types |->
          json_load(dir[IF t \in shared THEN last_read[t]
                        ELSE CHOOSE fn \in sources(t) : TRUE]).template] :
         last_read \in orders}

\* list_available_templates
list_available_templates == DOMAIN templates

----------------------------------------------------------------------------
\* Inputs of the calls

NameA == <<"a">>

NameAB == <<"a", ".", "b">>

NameB == <<"b">>

\* the template names passed to add_template, update_template, delete_template
OpNames == {NameA, NameAB}

TextHi == <<"$", "a">>

TextQuoted == <<"\\", "n", "\"", "\n">>

\* the (subject, body) pairs passed to add_template
AddTexts == {<<TextHi, TextQuoted>>, <<TextQuoted, TextHi>>}

\* the (subject, body) pairs passed to update_template
UpdateTexts ==
  {<<None, TextHi>>, <<TextQuoted, None>>, <<TextHi, TextQuoted>>,
   <<None, None>>}

\* a call and its outcome, as kept in last
Call(op, name, subject, body, details, outcome, result) ==
  [op |-> op, name |-> name, subject |-> subject, body |-> body,
   details |-> details, outcome |-> outcome, result |-> result]

NoDetails == <<>>

\* what a call returns or reports: the email of generate_email, the field
\* list of get_required_fields or of the missing-details error
Result(to, subject, body, fields) ==
  [to |-> to, subject |-> subject, body |-> body, fields |-> fields]

NoResult == Result(<<>>, <<>>, <<>>, <<>>)

\* the side effects of a call, as kept in effects
Effects(writes, removes, details) ==
  [writes |-> writes, removes |-> removes, details |-> details]

NoEffects == Effects(0, 0, NoDetails)

----------------------------------------------------------------------------
\* Construction: __init__ and load_templates

\* GuestEmailGenerator() on a directory that does not exist (dir_exists
\* FALSE) or that exists with the files of dir
construct(dir_exists, dir) ==
  LET seeded == IF dir_exists THEN dir ELSE create_default_templates(dir)
  IN  /\ loadable(seeded)
      /\ files = seeded
      /\ templates \in load_outcomes(seeded)
      /\ effects = Effects(IF dir_exists THEN 0
                           ELSE Cardinality(DOMAIN default_templates),
                           0, NoDetails)

\* the generator constructed on a directory that exists and holds no file
Init ==
  /\ construct(TRUE, <<>>)
  /\ last = Call("__init__", <<>>, None, None, NoDetails, "ok", NoResult)
  /\ clean = TRUE
  /\ deleted = {}

\* main() run again: a fresh GuestEmailGenerator on the same directory
restart ==
  /\ loadable(files)
  /\ templates' \in load_outcomes(files)
  /\ files' = files
  /\ last' = Call("__init__", <<>>, None, None, NoDetails, "ok", NoResult)
  /\ effects' = NoEffects
  /\ deleted' = {}
  /\ UNCHANGED clean

----------------------------------------------------------------------------
\* The durable steps

\* with open(path, 'w') as file: json.dump(template, file, indent=4)
\* succeeds, or raises OSError from open (the file is untouched) or from the
\* write (the file is left truncated)
write_file(template_name, template, ok) ==
  LET fn == template_file(template_name)
  IN  \/ /\ ok
         /\ files' = (fn :> json_dump(template)) @@ files
         /\ effects' = Effects(1, 0, NoDetails)
      \/ /\ ~ok
         /\ \/ files' = files
            \/ files' = (fn :> TruncatedFile) @@ files
         /\ effects' = NoEffects

\* if os.path.exists(template_path): os.remove(template_path)
remove_file(template_name, ok) ==
  LET fn == template_file(template_name)
  IN  \/ /\ ok
         /\ files' = [f \in DOMAIN files \ {fn} |-> files[f]]
         /\ effects' = Effects(0, IF fn \in DOMAIN files THEN 1 ELSE 0,
                               NoDetails)
      \/ /\ ~ok
         /\ fn \in DOMAIN files
         /\ files' = files
         /\ effects' = NoEffects

----------------------------------------------------------------------------
\* add_template, update_template, delete_template

\* a plausible slip: the existence check is missing and the name is stored
\* and written again
add_template_overwrite(template_name, subject_template, body_template) ==
  LET template == [subject |-> subject_template, body |-> body_template]
  IN  /\ templates' = (template_name :> template) @@ templates
      /\ \E ok \in BOOLEAN :
           /\ write_file(template_name, template, ok)
           /\ last' = Call("add_template", template_name,
                           subject_template, body_template, NoDetails,
                           IF ok THEN "ok" ELSE "OSError", NoResult)
           /\ clean' = (clean /\ ok)
           /\ deleted' = IF ok THEN deleted \ {template_name} ELSE deleted

add_template(template_name, subject_template, body_template) ==
  IF template_name \in DOMAIN templates
  THEN /\ last' = Call("add_template", template_name, subject_template,
                       body_template, NoDetails, "ValueError: exists", NoResult)
       /\ effects' = NoEffects
       /\ UNCHANGED <<templates, files, clean, deleted>>
  ELSE LET template == [subject |-> subject_template, body |-> body_template]
       IN  /\ templates' = (template_name :> template) @@ templates
           /\ \E ok \in BOOLEAN :
                /\ write_file(template_name, template, ok)
                /\ last' = Call("add_template", template_name,
                                subject_template, body_template, NoDetails,
                                IF ok THEN "ok" ELSE "OSError", NoResult)
                /\ clean' = (clean /\ ok)
                /\ deleted' = IF ok THEN deleted \ {template_name} ELSE deleted
     
\* a plausible slip: the new values are stored whether or not they are None
updated_template_overwrite(old, subject_template, body_template) ==
  [subject |-> subject_template, body |-> body_template]

\* the template after "if subject_template is not None: ..." and
\* "if body_template is not None: ..."
updated_template(old, subject_template, body_template) ==
  [subject |-> IF subject_template # None
               THEN subject_template ELSE old.subject,
   body    |-> IF body_template # None
               THEN body_template ELSE old.body]

update_template(template_name, subject_template, body_template) ==
  IF template_name \notin DOMAIN templates
  THEN /\ last' = Call("update_template", template_name, subject_template,
                       body_template, NoDetails, "ValueError: not found", NoResult)
       /\ effects' = NoEffects
       /\ UNCHANGED <<templates, files, clean, deleted>>
  ELSE LET template == updated_template(templates[template_name],
                                         subject_template, body_template)
       IN  /\ templates' = [templates EXCEPT ![template_name] = template]
           /\ \E ok \in BOOLEAN :
                /\ write_file(template_name, template, ok)
                /\ last' = Call("update_template", template_name,
                                subject_template, body_template, NoDetails,
                                IF ok THEN "ok" ELSE "OSError", NoResult)
                /\ clean' = (clean /\ ok)
           /\ UNCHANGED deleted

delete_template(template_name) ==
  IF template_name \notin DOMAIN templates
  THEN /\ last' = Call("delete_template", template_name, None, None,
                       NoDetails, "ValueError: not found", NoResult)
       /\ effects' = NoEffects
       /\ UNCHANGED <<templates, files, clean, deleted>>
  ELSE /\ templates' = [n \in DOMAIN templates \ {template_name} |->
                          templates[n]]
       /\ \E ok \in BOOLEAN :
            /\ remove_file(template_name, ok)
            /\ last' = Call("delete_template", template_name, None, None,
                            NoDetails, IF ok THEN "ok" ELSE "OSError", NoResult)
            /\ clean' = (clean /\ ok)
            /\ deleted' = IF ok THEN deleted \cup {template_name} ELSE deleted
 
----------------------------------------------------------------------------
\* The store

Next ==
  \/ \E n \in OpNames, t \in AddTexts : add_template(n, t[1], t[2])
  \/ \E n \in OpNames, t \in UpdateTexts : update_template(n, t[1], t[2])
  \/ \E n \in OpNames : delete_template(n)
  \/ restart

Spec == Init /\ [][Next]_vars

----------------------------------------------------------------------------
\* The engine: get_required_fields and generate_email

NameGuestEmail == <<"g", "u", "e", "s", "t", "_", "e", "m", "a", "i", "l">>

\* a plausible slip: only the first missing field is reported
missing_fields_first(required_fields, guest_details) ==
  LET absent(field) == field \notin DOMAIN guest_details
      missing == SelectSeq(required_fields, absent)
  IN  IF missing = <<>> THEN <<>> ELSE <<missing[1]>>

\* [field for field in required_fields if field not in guest_details]
missing_fields_of(required_fields, guest_details) ==
  LET absent(field) == field \notin DOMAIN guest_details
  IN  SelectSeq(required_fields, absent)

\* a plausible slip: guest_details.get("guest_email"), without the default
recipient_no_default(guest_details) ==
  IF NameGuestEmail \in DOMAIN guest_details
  THEN guest_details[NameGuestEmail] ELSE None

\* guest_details.get("guest_email", "")
recipient_of(guest_details) ==
  IF NameGuestEmail \in DOMAIN guest_details
  THEN guest_details[NameGuestEmail] ELSE <<>>

get_required_fields(template_type) ==
  /\ IF template_type \notin DOMAIN templates
     THEN last' = Call("get_required_fields", template_type, None, None,
                       NoDetails, "ValueError: not found", NoResult)
     ELSE last' = Call("get_required_fields", template_type, None, None,
                       NoDetails, "ok",
                       Result(<<>>, <<>>, <<>>,
                              required_fields_of(templates[template_type])))
  /\ effects' = NoEffects
  /\ UNCHANGED <<templates, files, clean, deleted>>

\* a plausible slip: the rendered text is kept in place of the template
generate_email_cached(template_type, guest_details) ==
  /\ IF template_type \notin DOMAIN templates
     THEN last' = Call("generate_email", template_type, None, None,
                       guest_details, "ValueError: not found", NoResult)
     ELSE LET template        == templates[template_type]
              required_fields == required_fields_of(template)
              missing_fields  == missing_fields_of(required_fields,
                                                   guest_details)
              subject         == substitute(template.subject, guest_details)
              body            == substitute(template.body, guest_details)
              outcome ==
                IF missing_fields # <<>> THEN "ValueError: missing"
                ELSE IF subject.error # "none" THEN subject.error
                ELSE IF body.error # "none" THEN body.error
                ELSE "ok"
              result ==
                IF missing_fields # <<>>
                THEN Result(<<>>, <<>>, <<>>, missing_fields)
                ELSE IF outcome # "ok" THEN NoResult
                ELSE Result(recipient_of(guest_details),
                            subject.out, body.out, <<>>)
          IN  last' = Call("generate_email", template_type, None, None,
                           guest_details, outcome, result)
  /\ effects' = Effects(0, 0, guest_details)
  /\ templates' = IF last'.outcome = "ok"
                  THEN [templates EXCEPT ![template_type] =
                          [subject |-> last'.result.subject,
                           body |-> last'.result.body]]
                  ELSE templates
  /\ UNCHANGED <<files, clean, deleted>>

generate_email(template_type, guest_details) ==
  /\ IF template_type \notin DOMAIN templates
     THEN last' = Call("generate_email", template_type, None, None,
                       guest_details, "ValueError: not found", NoResult)
     ELSE LET template        == templates[template_type]
              required_fields == required_fields_of(template)
              missing_fields  == missing_fields_of(required_fields,
                                                   guest_details)
              subject         == substitute(template.subject, guest_details)
              body            == substitute(template.body, guest_details)
              outcome ==
                IF missing_fields # <<>> THEN "ValueError: missing"
                ELSE IF subject.error # "none" THEN subject.error
                ELSE IF body.error # "none" THEN body.error
                ELSE "ok"
              result ==
                IF missing_fields # <<>>
                THEN Result(<<>>, <<>>, <<>>, missing_fields)
                ELSE IF outcome # "ok" THEN NoResult
                ELSE Result(recipient_of(guest_details),
                            subject.out, body.out, <<>>)
          IN  last' = Call("generate_email", template_type, None, None,
                           guest_details, outcome, result)
  /\ effects' = Effects(0, 0, guest_details)
  /\ UNCHANGED <<templates, files, clean, deleted>>

\* the subject and body patterns of the template the engine is run on
PatternFields == <<"$", "b", " ", "$", "a", "$", "a">>

PatternBraced == <<"$", "{", "a", "}">>

PatternBare == <<"$", "5">>

PatternEscaped == <<"$", "$", "a">>

PatternPlain == <<"h", "i">>

PatternEmail == <<"$">> \o NameGuestEmail

EnginePatterns ==
  {PatternFields, PatternBraced, PatternBare, PatternEscaped, PatternPlain,
   PatternEmail}

\* the guest details passed to generate_email
DetailKeys == {NameA, NameB, NameGuestEmail}

DetailValues == {<<"v">>, <<"$", "b">>}

DetailsSet == UNION {[keys -> DetailValues] : keys \in SUBSET DetailKeys}

\* the names passed to the engine: a stored one and an absent one
EngineNames == {NameA, NameAB}

\* the store after add_template(NameA, s, b) on an empty directory
InitEngine ==
  \E s \in EnginePatterns, b \in EnginePatterns :
    LET template == [subject |-> s, body |-> b]
    IN  /\ templates = (NameA :> template)
        /\ files = (template_file(NameA) :> json_dump(template))
        /\ last = Call("add_template", NameA, s, b, NoDetails, "ok", NoResult)
        /\ effects = Effects(1, 0, NoDetails)
        /\ clean = TRUE
        /\ deleted = {}

NextEngine ==
  \/ \E n \in EngineNames : get_required_fields(n)
  \/ \E n \in EngineNames, d \in DetailsSet : generate_email(n, d)

SpecEngine == InitEngine /\ [][NextEngine]_vars

----------------------------------------------------------------------------
\* The seeded store: construction on a location that does not exist yet

FieldGuestName ==
  <<"g", "u", "e", "s", "t", "_", "n", "a", "m", "e">>

FieldHotelName ==
  <<"h", "o", "t", "e", "l", "_", "n", "a", "m", "e">>

FieldCheckInDate ==
  <<"c", "h", "e", "c", "k", "_", "i", "n", "_", "d", "a", "t", "e">>

FieldCheckOutDate ==
  <<"c", "h", "e", "c", "k", "_", "o", "u", "t", "_", "d", "a", "t", "e">>

FieldRoomType ==
  <<"r", "o", "o", "m", "_", "t", "y", "p", "e">>

FieldNumGuests ==
  <<"n", "u", "m", "_", "g", "u", "e", "s", "t", "s">>

FieldReservationNumber ==
  <<"r", "e", "s", "e", "r", "v", "a", "t", "i", "o", "n", "_", "n", "u",
  "m", "b", "e", "r">>

FieldStaffName ==
  <<"s", "t", "a", "f", "f", "_", "n", "a", "m", "e">>

FieldHotelContact ==
  <<"h", "o", "t", "e", "l", "_", "c", "o", "n", "t", "a", "c", "t">>

FieldLocation ==
  <<"l", "o", "c", "a", "t", "i", "o", "n">>

\* the placeholders of the default booking_confirmation template
BookingFieldNames ==
  {FieldGuestName,
   FieldHotelName,
   FieldCheckInDate,
   FieldCheckOutDate,
   FieldRoomType,
   FieldNumGuests,
   FieldReservationNumber,
   FieldStaffName,
   FieldHotelContact,
   FieldLocation}

\* guest details as collect_guest_details gathers them: one entered value per
\* asked field, with or without the guest's address
EnteredDetails(fields) == [field \in fields |-> <<"v">>]

BookingDetails ==
  {EnteredDetails(BookingFieldNames),
   EnteredDetails(BookingFieldNames \cup {NameGuestEmail}),
   EnteredDetails((BookingFieldNames \ {FieldLocation}) \cup {NameGuestEmail}),
   EnteredDetails({})}

\* the default templates the seeded store is exercised on
SeedNames == {BookingConfirmationName, InquiryResponseName}

\* the location is missing, or is an existing directory without files
InitSeed ==
  /\ \E dir_exists \in BOOLEAN : construct(dir_exists, <<>>)
  /\ last = Call("__init__", <<>>, None, None, NoDetails, "ok", NoResult)
  /\ clean = TRUE
  /\ deleted = {}

NextSeed ==
  \/ \E n \in SeedNames : delete_template(n)
  \/ restart
  \/ \E n \in SeedNames : get_required_fields(n)
  \/ \E d \in BookingDetails : generate_email(BookingConfirmationName, d)

SpecSeed == InitSeed /\ [][NextSeed]_vars

----------------------------------------------------------------------------
\* Notions the properties are stated with

\* re.match(r'^[a-z_][a-z0-9_]*$', template_name), the check create_template
\* makes before it calls add_template
valid_name(template_name) ==
  /\ template_name # <<>>
  /\ template_name[1] \in Lower \cup {"_"}
  /\ \A i \in 1..Len(template_name) :
       template_name[i] \in Lower \cup Digits \cup {"_"}

\* the external name of a durable record: its file name without ".json"
RecordName(filename) == SubSeq(filename, 1, Len(filename) - Len(JsonSuffix))

\* the store and the durable records hold the same templates
Coincide ==
  /\ {RecordName(fn) : fn \in json_files(files)} = DOMAIN templates
  /\ \A n \in DOMAIN templates :
       json_load(files[template_file(n)])
         = [ok |-> TRUE, template |-> templates[n]]

\* the sequence lists the members of the set once each, in ascending order
SortedListOf(fields, set) ==
  /\ Range(fields) = set
  /\ \A i \in 1..Len(fields) : \A j \in 1..Len(fields) :
       i < j => StrLess(fields[i], fields[j])

\* the last call was generate_email on a stored template
Rendered == last.op = "generate_email" /\ last.name \in DOMAIN templates

RequiredSet == Range(required_fields_of(templates[last.name]))

\* the placeholder-free part of the values: no value holds a sentinel
PlainValues == \A k \in DOMAIN last.details : "$" \notin Range(last.details[k])

\* every sentinel of the text is followed by a character that starts neither
\* an identifier, nor a brace, nor a second sentinel (or by nothing)
BareSentinelsOnly(text) ==
  \A i \in 1..Len(text) :
    text[i] = "$" =>
      (i = Len(text) \/ ~(IsIdStart(text[i + 1]) \/ text[i + 1] \in {"{", "$"}))

\* every sentinel of the text starts a placeholder written $name or ${name}
PlaceholdersOnly(text) ==
  \A i \in 1..Len(text) :
    text[i] = "$" =>
      \/ i < Len(text) /\ IsIdStart(text[i + 1])
      \/ /\ i + 1 < Len(text) /\ text[i + 1] = "{" /\ IsIdStart(text[i + 2])
         /\ IdEnd(text, i + 2) < Len(text)
         /\ text[IdEnd(text, i + 2) + 1] = "}"

----------------------------------------------------------------------------
\* Properties of the store (checked under Spec)

\* C1: when the durable step of add, update or delete fails, the in-memory
\* mapping after the call is exactly what it was before the call.
C1_FailureAtomicity ==
  [][last'.outcome = "OSError" => templates' = templates]_vars

\* C2: as long as every add, update and delete has succeeded, the store and the durable records coincide:
\* the same names, and for each name the same subject and body.
C2_WriteThrough == clean => Coincide

\* C6: a name deleted successfully and not added again since is absent from
\* list_available_templates, cannot be looked up, and has no durable record.
C6_DeletionTotal ==
  \A n \in deleted :
    /\ n \notin list_available_templates
    /\ template_file(n) \notin DOMAIN files

\* C7: update on a stored name replaces the subject only if the given
\* subject is not None and the body only if the given body is not None,
\* keeps the omitted part, leaves every other template unchanged and writes
\* the resulting record; update on an absent name fails with "not found"
\* and changes neither the store nor the files.
C7_PartialUpdate ==
  [][last'.op = "update_template" =>
       LET n == last'.name
       IN  IF n \notin DOMAIN templates
           THEN /\ last'.outcome = "ValueError: not found"
                /\ templates' = templates
                /\ files' = files
           ELSE /\ last'.outcome \in {"ok", "OSError"}
                /\ last'.outcome = "ok" =>
                     /\ DOMAIN templates' = DOMAIN templates
                     /\ templates'[n].subject =
                          IF last'.subject # None THEN last'.subject
                          ELSE templates[n].subject
                     /\ templates'[n].body =
                          IF last'.body # None THEN last'.body
                          ELSE templates[n].body
                     /\ \A m \in DOMAIN templates \ {n} :
                          templates'[m] = templates[m]
                     /\ template_file(n) \in DOMAIN files'
                     /\ json_load(files'[template_file(n)])
                          = [ok |-> TRUE, template |-> templates'[n]]
                     /\ \A f \in DOMAIN files \ {template_file(n)} :
                          f \in DOMAIN files' /\ files'[f] = files[f]
  ]_vars

\* C7 witness: a successful update that gave a body but no subject, made
\* while another template was stored
C7_Witness ==
  /\ last.op = "update_template"
  /\ last.outcome = "ok"
  /\ last.subject = None
  /\ last.body # None
  /\ DOMAIN templates \ {last.name} # {}

\* C8: add of a stored name fails with "already exists", writes nothing and
\* leaves the store unchanged; a successful add of a new name stores exactly
\* the given subject and body under that name.
C8_AddNeverOverwrites ==
  [][last'.op = "add_template" =>
       LET n == last'.name
       IN  IF n \in DOMAIN templates
           THEN /\ last'.outcome = "ValueError: exists"
                /\ templates' = templates
                /\ files' = files
           ELSE /\ last'.outcome \in {"ok", "OSError"}
                /\ last'.outcome = "ok" =>
                     /\ n \in DOMAIN templates'
                     /\ templates'[n] = [subject |-> last'.subject,
                                         body |-> last'.body]
  ]_vars

\* C8 witness: an add of a stored name, with texts other than the stored
\* ones, was refused
C8_Witness ==
  /\ last.op = "add_template"
  /\ last.outcome = "ValueError: exists"
  /\ last.name \in DOMAIN templates
  /\ templates[last.name] # [subject |-> last.subject, body |-> last.body]

\* C9: every name in the store matches the naming pattern, whatever names
\* the caller passes to add.
C9_NamesValid == \A n \in DOMAIN templates : valid_name(n)

\* C10: as long as every add, update and delete has succeeded, a fresh
\* store constructed on the same directory holds exactly the mapping the
\* running store holds.
C10_RoundTrip ==
  clean => (loadable(files) /\ load_outcomes(files) = {templates})

----------------------------------------------------------------------------
\* Properties of the engine (checked under SpecEngine)

\* C3: generate_email on a stored template with guest details that lack a
\* required field fails with the missing-details error, which lists exactly
\* the required fields that are no key of the details, once each, in
\* lexicographic order; no email is returned.
C3_MissingFields ==
  (Rendered /\ RequiredSet \ DOMAIN last.details # {}) =>
    /\ last.outcome = "ValueError: missing"
    /\ SortedListOf(last.result.fields, RequiredSet \ DOMAIN last.details)
    /\ last.result.to = <<>>
    /\ last.result.subject = <<>>
    /\ last.result.body = <<>>

\* C3 witness: a render that lacked two required fields was refused
C3_Witness ==
  /\ Rendered
  /\ last.outcome = "ValueError: missing"
  /\ Cardinality(RequiredSet \ DOMAIN last.details) = 2

\* C4: generate_email on a stored template whose placeholders are written
\* $name or ${name}, with guest details that have every required field,
\* succeeds, and (the values holding no sentinel) the rendered subject and
\* body hold no placeholder of a required field.
C4_RenderSucceeds ==
  (/\ Rendered
   /\ PlaceholdersOnly(templates[last.name].subject)
   /\ PlaceholdersOnly(templates[last.name].body)
   /\ RequiredSet \subseteq DOMAIN last.details) =>
    /\ last.outcome = "ok"
    /\ PlainValues =>
         /\ Range(findall(last.result.subject)) \cap RequiredSet = {}
         /\ Range(findall(last.result.body)) \cap RequiredSet = {}

\* C5: for a template whose sentinels are all followed by no identifier,
\* get_required_fields lists nothing and generate_email succeeds and returns
\* the subject and the body verbatim.
C5_LiteralSentinel ==
  (/\ Rendered
   /\ BareSentinelsOnly(templates[last.name].subject)
   /\ BareSentinelsOnly(templates[last.name].body)) =>
    /\ RequiredSet = {}
    /\ last.outcome = "ok"
    /\ last.result.subject = templates[last.name].subject
    /\ last.result.body = templates[last.name].body

\* the identifiers of the placeholders of a text, as the design writes them:
\* $name, or ${name} with the closing brace
PlaceholderIds(text) ==
  {SubSeq(text, i + 1, IdEnd(text, i + 1)) :
     i \in {k \in 1..Len(text) - 1 : text[k] = "$" /\ IsIdStart(text[k + 1])}}
  \cup
  {SubSeq(text, i + 2, IdEnd(text, i + 2)) :
     i \in {k \in 1..Len(text) - 2 :
              /\ text[k] = "$" /\ text[k + 1] = "{" /\ IsIdStart(text[k + 2])
              /\ IdEnd(text, k + 2) < Len(text)
              /\ text[IdEnd(text, k + 2) + 1] = "}"}}

\* C11: get_required_fields on a stored template returns the distinct
\* placeholder identifiers of its subject and body, once each, in
\* lexicographic order.
C11_RequiredFields ==
  (last.op = "get_required_fields" /\ last.name \in DOMAIN templates) =>
    /\ last.outcome = "ok"
    /\ SortedListOf(last.result.fields,
                    PlaceholderIds(templates[last.name].subject)
                      \cup PlaceholderIds(templates[last.name].body))

\* the nine names of the booking confirmation's documented field list
NineBookingFields == BookingFieldNames \ {FieldLocation}

\* the last call was made on the stored booking_confirmation template
OnBooking(op) ==
  /\ last.op = op
  /\ last.name = BookingConfirmationName
  /\ BookingConfirmationName \in DOMAIN templates

\* C12 (as stated): the required fields of the default booking_confirmation
\* template are exactly the nine documented names, sorted, and a render with
\* values for those nine (and any further unused key) succeeds.
C12_NineFields ==
  /\ OnBooking("get_required_fields") =>
       SortedListOf(last.result.fields, NineBookingFields)
  /\ (OnBooking("generate_email")
        /\ NineBookingFields \subseteq DOMAIN last.details) =>
       last.outcome = "ok"

\* C12 (amended): the required fields of the default booking_confirmation
\* template are the nine documented names and location, sorted; a render with
\* values for those ten (and any further unused key) succeeds, and a render
\* without a value for location is rejected with location reported missing.
C12_TenFields ==
  /\ OnBooking("get_required_fields") =>
       SortedListOf(last.result.fields, NineBookingFields \cup {FieldLocation})
  /\ (OnBooking("generate_email")
        /\ BookingFieldNames \subseteq DOMAIN last.details) =>
       last.outcome = "ok"
  /\ (OnBooking("generate_email")
        /\ DOMAIN last.details \cap BookingFieldNames = NineBookingFields) =>
       /\ last.outcome = "ValueError: missing"
       /\ last.result.fields = <<FieldLocation>>

\* a render of booking_confirmation with the ten values and the unused
\* guest_email succeeded
C12_Witness ==
  /\ OnBooking("generate_email")
  /\ DOMAIN last.details = BookingFieldNames \cup {NameGuestEmail}
  /\ last.outcome = "ok"
  /\ last.result.to = <<"v">>

\* C13: construction on a location without template records ends with exactly
\* the five default templates on storage and in memory; on a location that
\* holds records it writes nothing and the store holds exactly those records.
C13_SeedWhenEmpty ==
  [][last'.op = "__init__" =>
       IF json_files(files) = {}
       THEN /\ templates' = default_templates
            /\ files' = create_default_templates(files)
            /\ effects'.writes = Cardinality(DOMAIN default_templates)
       ELSE /\ files' = files
            /\ effects'.writes = 0
            /\ DOMAIN templates' = {RecordName(fn) : fn \in json_files(files)}
            /\ \A fn \in json_files(files) :
                 json_load(files[fn])
                   = [ok |-> TRUE, template |-> templates'[RecordName(fn)]]]_vars

\* a character that occurs in no template and no value
Mark == "#"

\* the text with every sentinel replaced by the mark, and back
Masked(text) == [i \in 1..Len(text) |-> IF text[i] = "$" THEN Mark ELSE text[i]]

Unmasked(text) == [i \in 1..Len(text) |-> IF text[i] = Mark THEN "$" ELSE text[i]]

MaskedValues(values) == [k \in DOMAIN values |-> Masked(values[k])]

\* C14: substitution is single-pass.  The values are opaque: a successful
\* render gives the text it gives when every sentinel inside the values is
\* replaced by an inert character that is turned back into the sentinel in
\* the output, so placeholder syntax inside a value is copied verbatim, also
\* when it names a key of the values.
C14_SinglePass ==
  (Rendered /\ last.outcome = "ok") =>
    LET template == templates[last.name]
        subject  == substitute(template.subject, MaskedValues(last.details))
        body     == substitute(template.body, MaskedValues(last.details))
    IN  /\ subject.error = "none"
        /\ body.error = "none"
        /\ last.result.subject = Unmasked(subject.out)
        /\ last.result.body = Unmasked(body.out)

\* "$b $a$a" was rendered with a = "$b" and b = "v": the result is "v $b$b"
C14_Witness ==
  /\ Rendered
  /\ last.outcome = "ok"
  /\ templates[last.name].subject = PatternFields
  /\ NameB \in DOMAIN last.details
  /\ NameA \in DOMAIN last.details
  /\ last.details[NameA] = <<"$", "b">>
  /\ last.details[NameB] = <<"v">>
  /\ last.result.subject = <<"v", " ", "$", "b", "$", "b">>

\* the values of the keys the template refers to
Referenced(template, values) ==
  LET ids == PlaceholderIds(template.subject) \cup PlaceholderIds(template.body)
  IN  [k \in DOMAIN values \cap ids |-> values[k]]

\* C15: the recipient of a successful render is the value of guest_email when
\* the values hold that key and the empty text otherwise, whether or not the
\* template refers to guest_email; the keys the template does not refer to
\* do not change the rendered subject and body.
C15_Recipient ==
  (Rendered /\ last.outcome = "ok") =>
    LET template == templates[last.name]
        used     == Referenced(template, last.details)
    IN  /\ last.result.to = IF NameGuestEmail \in DOMAIN last.details
                            THEN last.details[NameGuestEmail] ELSE <<>>
        /\ last.result.subject = substitute(template.subject, used).out
        /\ last.result.body = substitute(template.body, used).out

\* a template without placeholders was rendered with guest_email and a key it
\* does not refer to
C15_Witness ==
  /\ Rendered
  /\ last.outcome = "ok"
  /\ templates[last.name] = [subject |-> PatternPlain, body |-> PatternPlain]
  /\ DOMAIN last.details = {NameGuestEmail, NameA}
  /\ last.result.to = last.details[NameGuestEmail]
  /\ last.result.subject = PatternPlain

\* C17: get_required_fields and generate_email, whether they return or raise,
\* leave the templates in memory and the durable records as they were, and
\* generate_email leaves the guest details it was given as they were.
C17_EngineFrame ==
  [][last'.op \in {"get_required_fields", "generate_email"} =>
       /\ templates' = templates
       /\ files' = files
       /\ last'.op = "generate_email" => effects'.details = last'.details]_vars

\* a render of a stored template was refused for missing fields, after which
\* the store still coincides with the records
C17_Witness ==
  /\ Rendered
  /\ last.outcome = "ValueError: missing"
  /\ effects.details = last.details
  /\ Coincide

\* C16: a successful add_template or update_template writes exactly one
\* record, a successful delete_template removes exactly one record, a call
\* refused because the name exists or is not found writes and removes
\* nothing, and construction writes one record per default template when it
\* seeds and none otherwise.
C16_WriteCount ==
  /\ (last.op \in {"add_template", "update_template"} /\ last.outcome = "ok")
       => (effects.writes = 1 /\ effects.removes = 0)
  /\ (last.op = "delete_template" /\ last.outcome = "ok")
       => (effects.writes = 0 /\ effects.removes = 1)
  /\ last.outcome \in {"ValueError: exists", "ValueError: not found"}
       => (effects.writes = 0 /\ effects.removes = 0)
  /\ last.op = "__init__"
       => /\ effects.removes = 0
          /\ \/ effects.writes = 0
             \/ /\ effects.writes = Cardinality(DOMAIN default_templates)
                /\ templates = default_templates

====
